---- MODULE Spec2Model ----
(***************************************************************************)
(* The Dropdown selection engine (src/unnamed/part_001, class Dropdown).   *)
(*                                                                         *)
(* Encoding of JavaScript values                                           *)
(*   string            a sequence of one-character strings                 *)
(*   item              a record [key, header] (a DropdownItem shorthand)   *)
(*   null / undefined  the numbers NULL / UNDEFINED where a number is      *)
(*                     expected, UNDEF_STR where a string is expected,     *)
(*                     NoItem where an item is expected                    *)
(*   value             a sequence of items: the chips in multiple mode;    *)
(*                     in single mode << >> is null and <<i>> is item i    *)
(*   array index       0-based, as in the source                           *)
(*                                                                         *)
(* React batches the setState calls of one handler: inside a handler       *)
(* this.state is the state the handler started with, the updates are       *)
(* merged in call order, and getAutoControlledStateFromProps is applied    *)
(* to the merged state before the next render.                             *)
(***************************************************************************)
EXTENDS Integers, Sequences, FiniteSets, TLC

VARIABLES props, state, notes, dom, last

vars == <<props, state, notes, dom, last>>

-----------------------------------------------------------------------------
(* Bounds of the model *)

\* longest value (chip strip) the model lets a select build
MaxValue == 2

\* most "scroll chip strip to end" callbacks pending at once
MaxScroll == 1

\* the characters the type-ahead buffer may hold
MaxTyped == 2

-----------------------------------------------------------------------------
(* JavaScript values *)

NULL == -100
UNDEFINED == -101
UNDEF_STR == <<"undefined">>
NoItem == [key |-> 0, header |-> << >>]

isNumber(x) == x \notin {NULL, UNDEFINED}
isNil(x) == x \in {NULL, UNDEFINED}

\* element i (0-based) of an array
At(arr, i) == arr[i + 1]

Range(arr) == {arr[i] : i \in DOMAIN arr}

\* Array.prototype.indexOf: the first 0-based index of x, -1 when absent
indexOf(arr, x) ==
  IF \E i \in DOMAIN arr : arr[i] = x
  THEN (CHOOSE i \in DOMAIN arr : arr[i] = x /\ \A j \in 1..(i - 1) : arr[j] # x) - 1
  ELSE -1

\* _.difference(arr, values): the elements of arr not in values, order kept
difference(arr, values) == SelectSeq(arr, LAMBDA x : x \notin Range(values))

\* Array.prototype.pop: the array without its last element
popped(arr) == IF Len(arr) = 0 THEN arr ELSE SubSeq(arr, 1, Len(arr) - 1)

\* { ...base, ...upd } on state objects
Merge(base, upd) ==
  [k \in DOMAIN base |-> IF k \in DOMAIN upd THEN upd[k] ELSE base[k]]

-----------------------------------------------------------------------------
(* Strings *)

toLowerChar(c) ==
  CASE c = "A" -> "a"
    [] c = "B" -> "b"
    [] c = "C" -> "c"
    [] c = "N" -> "n"
    [] c = "P" -> "p"
    [] OTHER -> c

\* String.prototype.toLowerCase
toLowerCase(s) == [i \in DOMAIN s |-> toLowerChar(s[i])]

\* s has q at 0-based position i
OccursAt(s, q, i) ==
  /\ i + Len(q) <= Len(s)
  /\ \A j \in 1..Len(q) : s[i + j] = q[j]

\* String.prototype.indexOf: first position of q in s, -1 when absent
strIndexOf(s, q) ==
  IF \E i \in 0..Len(s) : OccursAt(s, q, i)
  THEN CHOOSE i \in 0..Len(s) :
         OccursAt(s, q, i) /\ \A j \in 0..(i - 1) : ~OccursAt(s, q, j)
  ELSE -1

\* String.prototype.startsWith
startsWith(s, q) == OccursAt(s, q, 0)

-----------------------------------------------------------------------------
(* The items and queries the model draws from *)

Apple == [key |-> 1, header |-> <<"A", "p", "p", "l", "e">>]
Banana == [key |-> 2, header |-> <<"B", "a", "n", "a", "n", "a">>]
Cherry == [key |-> 3, header |-> <<"C", "h", "e", "r", "r", "y">>]
Apricot == [key |-> 4, header |-> <<"A", "p", "r", "i", "c", "o", "t">>]

ItemLists == { << >>, <<Apple, Banana>>, <<Apple, Banana, Cherry>> }

\* the item collections of the multiple-selection instances
ChipItemLists == { << >>, <<Apple, Banana>> }

Queries == { << >>, <<"a">>, <<"A", "N">>, <<"z">> }

-----------------------------------------------------------------------------
(* Props *)

\* defaultProps.itemToString
itemToString(item) ==
  IF item = NoItem THEN << >>
  ELSE IF item.header # << >> THEN item.header
  ELSE <<"[object Object]">>

\* props.search, when it is a function (items, searchQuery) => items.  Two
\* caller-supplied functions: one selects among the candidates it is handed
\* (prefix match instead of substring match), one searches the caller's own
\* list and ignores the candidates it is handed.
SearchKinds == {"none", "text", "prefixFn", "ownListFn"}

isFunction(search) == search \in {"prefixFn", "ownListFn"}

search_call(p, candidates, searchQuery) ==
  IF p.search = "prefixFn"
  THEN SelectSeq(candidates,
              LAMBDA item : startsWith(toLowerCase(itemToString(item)),
                                       toLowerCase(searchQuery)))
  ELSE SelectSeq(p.items,
              LAMBDA item : strIndexOf(toLowerCase(itemToString(item)),
                                       toLowerCase(searchQuery)) # -1)

\* props.getA11ySelectionMessage.onAdd / onRemove, when configured
onAdd(item) == <<"+">> \o itemToString(item)
onRemove(item) == <<"-">> \o itemToString(item)

-----------------------------------------------------------------------------
(* Component state *)

getInitialAutoControlledState(p) ==
  [ a11ySelectionStatus |-> << >>,
    activeSelectedIndex |-> IF p.multiple THEN NULL ELSE UNDEFINED,
    filteredItems       |-> << >>,
    filteredItemStrings |-> << >>,
    startingString      |-> IF p.search # "none" THEN UNDEF_STR ELSE << >>,
    open                |-> FALSE,
    highlightedIndex    |-> IF p.highlightFirstItemOnOpen THEN 0 ELSE NULL,
    searchQuery         |-> IF p.search # "none" THEN << >> ELSE UNDEF_STR,
    value               |-> << >> ]

\* variant: the chosen items are not taken out of the candidates
getAutoControlledStateFromProps_keepsChosen(p, st) ==
  LET filteredItemsByValue == p.items
  IN  IF p.search # "none"
      THEN IF isFunction(p.search)
           THEN [filteredItems |-> search_call(p, filteredItemsByValue, st.searchQuery)]
           ELSE [filteredItems |->
                   SelectSeq(filteredItemsByValue,
                          LAMBDA item :
                            strIndexOf(toLowerCase(itemToString(item)),
                                       toLowerCase(st.searchQuery)) # -1)]
      ELSE [filteredItems |-> filteredItemsByValue,
            filteredItemStrings |->
              [i \in DOMAIN filteredItemsByValue |->
                 toLowerCase(itemToString(filteredItemsByValue[i]))]]

\* variant: the text search keeps the items the query is a prefix of
getAutoControlledStateFromProps_prefix(p, st) ==
  LET filteredItemsByValue ==
        IF p.multiple THEN difference(p.items, st.value) ELSE p.items
  IN  IF p.search # "none"
      THEN IF isFunction(p.search)
           THEN [filteredItems |-> search_call(p, filteredItemsByValue, st.searchQuery)]
           ELSE [filteredItems |->
                   SelectSeq(filteredItemsByValue,
                          LAMBDA item :
                            strIndexOf(toLowerCase(itemToString(item)),
                                       toLowerCase(st.searchQuery)) = 0)]
      ELSE [filteredItems |-> filteredItemsByValue,
            filteredItemStrings |->
              [i \in DOMAIN filteredItemsByValue |->
                 toLowerCase(itemToString(filteredItemsByValue[i]))]]

\* variant: the strings of the candidates are kept as they are written
getAutoControlledStateFromProps_rawStrings(p, st) ==
  LET filteredItemsByValue ==
        IF p.multiple THEN difference(p.items, st.value) ELSE p.items
  IN  IF p.search # "none"
      THEN IF isFunction(p.search)
           THEN [filteredItems |-> search_call(p, filteredItemsByValue, st.searchQuery)]
           ELSE [filteredItems |->
                   SelectSeq(filteredItemsByValue,
                          LAMBDA item :
                            strIndexOf(toLowerCase(itemToString(item)),
                                       toLowerCase(st.searchQuery)) # -1)]
      ELSE [filteredItems |-> filteredItemsByValue,
            filteredItemStrings |->
              [i \in DOMAIN filteredItemsByValue |->
                 itemToString(filteredItemsByValue[i])]]

getAutoControlledStateFromProps(p, st) ==
  LET filteredItemsByValue ==
        IF p.multiple THEN difference(p.items, st.value) ELSE p.items
  IN  IF p.search # "none"
      THEN IF isFunction(p.search)
           THEN [filteredItems |-> search_call(p, filteredItemsByValue, st.searchQuery)]
           ELSE [filteredItems |->
                   SelectSeq(filteredItemsByValue,
                          LAMBDA item :
                            strIndexOf(toLowerCase(itemToString(item)),
                                       toLowerCase(st.searchQuery)) # -1)]
      ELSE [filteredItems |-> filteredItemsByValue,
            filteredItemStrings |->
              [i \in DOMAIN filteredItemsByValue |->
                 toLowerCase(itemToString(filteredItemsByValue[i]))]]

\* AutoControlledComponent.getDerivedStateFromProps: before every render the
\* state is completed with getAutoControlledStateFromProps
applyDerived(p, st) == Merge(st, getAutoControlledStateFromProps(p, st))

\* AutoControlledComponent.trySetState: a key the parent controls is ignored
trySetState(p, st, maybeState) ==
  [k \in DOMAIN st |->
     IF k \in DOMAIN maybeState /\ k \notin p.controlled
     THEN maybeState[k] ELSE st[k]]

\* Component.setState
setState(st, partial) == Merge(st, partial)

-----------------------------------------------------------------------------
(* A handler works on the machine m = [state, notes, dom]:                  *)
(*   m.state  this.state                                                    *)
(*   m.notes  the notifications (props.onXxx calls) of the current event    *)
(*   m.dom    document.activeElement, the pending timers, mounted           *)

\* _.invoke(this.props, handlerName, event, { ...this.props, ...newState });
\* stateSet tells whether the handler has handed newState to trySetState by
\* the time the listener runs
invoke(m, handlerName, newState) ==
  [m EXCEPT !.notes =
     Append(@, [handler |-> handlerName, data |-> newState,
                stateSet |-> \A k \in DOMAIN newState : m.state[k] = newState[k]])]

trySetStateAndInvokeHandler(p, m, handlerName, newState) ==
  invoke([m EXCEPT !.state = trySetState(p, @, newState)], handlerName, newState)

\* the render that follows a batch of updates
render(p, m) == [m EXCEPT !.state = applyDerived(p, @)]

\* variant: the trigger button is focused with search as well
tryFocusTriggerButton_anyMode(p, m) ==
  [m EXCEPT !.dom.focus = "trigger"]

tryFocusTriggerButton(p, m) ==
  IF p.search = "none" THEN [m EXCEPT !.dom.focus = "trigger"] ELSE m

tryFocusSearchInput(p, m) ==
  IF p.search # "none" THEN [m EXCEPT !.dom.focus = "input"] ELSE m

isValueEmpty(value) == Len(value) < 1

\* variant: the multiple and the single branch are swapped
getSelectedItemAsString_swapped(p, item) ==
  IF isValueEmpty(IF item = NoItem THEN << >> ELSE <<item>>) THEN p.placeholder
  ELSE IF p.multiple THEN itemToString(item)
  ELSE << >>

getSelectedItemAsString(p, item) ==
  IF isValueEmpty(IF item = NoItem THEN << >> ELSE <<item>>) THEN p.placeholder
  ELSE IF p.multiple THEN << >>
  ELSE itemToString(item)

\* The timers of the window are dom.timers, a set of [id, signal, delay] with
\* delay the milliseconds left; this.a11yStatusTimeout and
\* this.charKeysPressedTimeout hold the id setTimeout returned (UNDEFINED
\* before the first call).  dom.clock keeps, for each signal, the
\* milliseconds since its last set call (NULL before the first), whether that
\* call found a timer of the signal pending, and the expiries since.
a11yStatusCleanupTime == 500
charKeyPressedCleanupTime == 500

Signals == {"a11y", "charKeys"}

\* the milliseconds the clock lets pass in one step
AdvanceSteps == {250}

\* the clock stops counting beyond the cleanup time
Late == a11yStatusCleanupTime + 100

Min(a, b) == IF a <= b THEN a ELSE b

clearTimeout(d, id) == [d EXCEPT !.timers = {t \in @ : t.id # id}]

\* the id setTimeout returns: one no timer and no field holds
freshId(d) ==
  LET used == {t.id : t \in d.timers}
                \cup {d.a11yStatusTimeout, d.charKeysPressedTimeout}
  IN  CHOOSE i \in 1..(Cardinality(used) + 1) :
        i \notin used /\ \A j \in 1..(i - 1) : j \in used

setTimeout(d, id, signal, delay) ==
  [d EXCEPT !.timers = @ \cup {[id |-> id, signal |-> signal, delay |-> delay]}]

\* the clock at a set call of signal, made on the dom d0 the call found
setCalled(d, d0, signal) ==
  [d EXCEPT !.clock[signal] =
     [ sinceSet |-> 0,
       rearmed  |-> \E t \in d0.timers : t.signal = signal,
       expiries |-> 0 ]]

\* variant: the pending timer is not cleared
setA11ySelectionMessage_noClear(m, a11ySelectionStatus) ==
  LET id == freshId(m.dom)
      d2 == setTimeout(m.dom, id, "a11y", a11yStatusCleanupTime)
  IN  [m EXCEPT !.state = setState(@, [a11ySelectionStatus |-> a11ySelectionStatus]),
                !.dom = [setCalled(d2, m.dom, "a11y") EXCEPT !.a11yStatusTimeout = id]]

\* variant: the status is not written
setA11ySelectionMessage_noStatus(m, a11ySelectionStatus) ==
  LET d1 == clearTimeout(m.dom, m.dom.a11yStatusTimeout)
      id == freshId(d1)
      d2 == setTimeout(d1, id, "a11y", a11yStatusCleanupTime)
  IN  [m EXCEPT !.dom = [setCalled(d2, m.dom, "a11y") EXCEPT !.a11yStatusTimeout = id]]

\* setA11ySelectionMessage: clearTimeout, setState, setTimeout
setA11ySelectionMessage(m, a11ySelectionStatus) ==
  LET d1 == clearTimeout(m.dom, m.dom.a11yStatusTimeout)
      id == freshId(d1)
      d2 == setTimeout(d1, id, "a11y", a11yStatusCleanupTime)
  IN  [m EXCEPT !.state = setState(@, [a11ySelectionStatus |-> a11ySelectionStatus]),
                !.dom = [setCalled(d2, m.dom, "a11y") EXCEPT !.a11yStatusTimeout = id]]

\* variant: the pending timer is not cleared
setStartingString_noClear(m, startingString) ==
  LET id == freshId(m.dom)
      d2 == setTimeout(m.dom, id, "charKeys", charKeyPressedCleanupTime)
  IN  [m EXCEPT !.state = setState(@, [startingString |-> startingString]),
                !.dom = [setCalled(d2, m.dom, "charKeys")
                           EXCEPT !.charKeysPressedTimeout = id]]

\* variant: the status timer is cleared as well
setStartingString_clearsBoth(m, startingString) ==
  LET d1 == clearTimeout(clearTimeout(m.dom, m.dom.charKeysPressedTimeout),
                         m.dom.a11yStatusTimeout)
      id == freshId(d1)
      d2 == setTimeout(d1, id, "charKeys", charKeyPressedCleanupTime)
  IN  [m EXCEPT !.state = setState(@, [startingString |-> startingString]),
                !.dom = [setCalled(d2, m.dom, "charKeys")
                           EXCEPT !.charKeysPressedTimeout = id]]

\* setStartingString: clearTimeout, setState, setTimeout
setStartingString(m, startingString) ==
  LET d1 == clearTimeout(m.dom, m.dom.charKeysPressedTimeout)
      id == freshId(d1)
      d2 == setTimeout(d1, id, "charKeys", charKeyPressedCleanupTime)
  IN  [m EXCEPT !.state = setState(@, [startingString |-> startingString]),
                !.dom = [setCalled(d2, m.dom, "charKeys")
                           EXCEPT !.charKeysPressedTimeout = id]]

\* variant: only the status timer is cleared
componentWillUnmount_statusOnly(d) ==
  clearTimeout(d, d.a11yStatusTimeout)

componentWillUnmount(d) ==
  clearTimeout(clearTimeout(d, d.a11yStatusTimeout), d.charKeysPressedTimeout)

\* _.findIndex(array, predicate, fromIndex) for predicate = startsWith(prefix)
findIndex(strings, prefix, fromIndex) ==
  LET hits == {i \in 0..(Len(strings) - 1) :
                 i >= fromIndex /\ startsWith(At(strings, i), prefix)}
  IN  IF hits = {} THEN -1 ELSE CHOOSE i \in hits : \A j \in hits : i <= j

\* variant: a started string scans past the highlighted item, a new one at it
setHighlightedIndexOnCharKeyDown_offsetSwapped(p, m, keyString) ==
  LET st == m.state
      newStartingString == st.startingString \o toLowerCase(keyString)
      m1 == setStartingString(m, newStartingString)
      fromHighlighted ==
        IF isNumber(st.highlightedIndex)
        THEN findIndex(st.filteredItemStrings, newStartingString,
                       st.highlightedIndex
                         + (IF Len(st.startingString) > 0 THEN 1 ELSE 0))
        ELSE -1
      newHighlightedIndex ==
        IF fromHighlighted < 0
        THEN findIndex(st.filteredItemStrings, newStartingString, 0)
        ELSE fromHighlighted
  IN  IF newHighlightedIndex >= 0
      THEN [m1 EXCEPT !.state = setState(@, [highlightedIndex |-> newHighlightedIndex])]
      ELSE m1

setHighlightedIndexOnCharKeyDown(p, m, keyString) ==
  LET st == m.state
      newStartingString == st.startingString \o toLowerCase(keyString)
      m1 == setStartingString(m, newStartingString)
      fromHighlighted ==
        IF isNumber(st.highlightedIndex)
        THEN findIndex(st.filteredItemStrings, newStartingString,
                       st.highlightedIndex
                         + (IF Len(st.startingString) > 0 THEN 0 ELSE 1))
        ELSE -1
      newHighlightedIndex ==
        IF fromHighlighted < 0
        THEN findIndex(st.filteredItemStrings, newStartingString, 0)
        ELSE fromHighlighted
  IN  IF newHighlightedIndex >= 0
      THEN [m1 EXCEPT !.state = setState(@, [highlightedIndex |-> newHighlightedIndex])]
      ELSE m1

\* variant: an empty query does not close the list
handleSearchQueryChange_keepsOpen(p, m, searchQuery) ==
  trySetStateAndInvokeHandler(p, m, "onSearchQueryChange",
    [ searchQuery      |-> searchQuery,
      highlightedIndex |-> IF p.highlightFirstItemOnOpen THEN 0 ELSE NULL,
      open             |-> m.state.open ])

\* variant: a new query drops the selection
handleSearchQueryChange_dropsValue(p, m, searchQuery) ==
  trySetStateAndInvokeHandler(p, m, "onSearchQueryChange",
    [ searchQuery      |-> searchQuery,
      highlightedIndex |-> IF p.highlightFirstItemOnOpen THEN 0 ELSE NULL,
      open             |-> IF searchQuery = << >> THEN FALSE ELSE m.state.open,
      value            |-> << >> ])

handleSearchQueryChange(p, m, searchQuery) ==
  trySetStateAndInvokeHandler(p, m, "onSearchQueryChange",
    [ searchQuery      |-> searchQuery,
      highlightedIndex |-> IF p.highlightFirstItemOnOpen THEN 0 ELSE NULL,
      open             |-> IF searchQuery = << >> THEN FALSE ELSE m.state.open ])

\* changes = [type, hasIsOpen, isOpen, highlightedIndex] is Downshift's
\* StateChangeOptions; hasIsOpen is changes.isOpen !== undefined
\* variant: the index next to the selected item is not wrapped
getHighlightedIndexOnArrowKeyOpen_noWrap(p, st, changes) ==
  LET isArrowUp == changes.type = "keyDownArrowUp"
      isArrowDown == changes.type = "keyDownArrowDown"
      itemsLength == Len(st.filteredItems)
      offset == IF isArrowUp THEN -1 ELSE IF isArrowDown THEN 1 ELSE 0
      newHighlightedIndex == indexOf(p.items, st.value[1]) + offset
  IN  IF isNumber(st.highlightedIndex) /\ st.highlightedIndex # 0
        THEN st.highlightedIndex
      ELSE IF p.highlightFirstItemOnOpen THEN 0
      ELSE IF ~p.multiple /\ p.search = "none" /\ st.value # << >>
        THEN newHighlightedIndex
      ELSE IF isArrowDown THEN 0
      ELSE IF isArrowUp THEN itemsLength - 1
      ELSE NULL

\* variant: the arrow keys are looked at before highlightFirstItemOnOpen
getHighlightedIndexOnArrowKeyOpen_arrowsFirst(p, st, changes) ==
  LET isArrowUp == changes.type = "keyDownArrowUp"
      isArrowDown == changes.type = "keyDownArrowDown"
      itemsLength == Len(st.filteredItems)
      offset == IF isArrowUp THEN -1 ELSE IF isArrowDown THEN 1 ELSE 0
      newHighlightedIndex == indexOf(p.items, st.value[1]) + offset
  IN  IF isNumber(st.highlightedIndex) /\ st.highlightedIndex # 0
        THEN st.highlightedIndex
      ELSE IF ~p.multiple /\ p.search = "none" /\ st.value # << >>
        THEN IF newHighlightedIndex >= itemsLength THEN 0
             ELSE IF newHighlightedIndex < 0 THEN itemsLength - 1
             ELSE newHighlightedIndex
      ELSE IF isArrowDown THEN 0
      ELSE IF isArrowUp THEN itemsLength - 1
      ELSE IF p.highlightFirstItemOnOpen THEN 0
      ELSE NULL

getHighlightedIndexOnArrowKeyOpen(p, st, changes) ==
  LET isArrowUp == changes.type = "keyDownArrowUp"
      isArrowDown == changes.type = "keyDownArrowDown"
      itemsLength == Len(st.filteredItems)
      offset == IF isArrowUp THEN -1 ELSE IF isArrowDown THEN 1 ELSE 0
      newHighlightedIndex == indexOf(p.items, st.value[1]) + offset
  IN  IF isNumber(st.highlightedIndex) /\ st.highlightedIndex # 0
        THEN st.highlightedIndex
      ELSE IF p.highlightFirstItemOnOpen THEN 0
      ELSE IF ~p.multiple /\ p.search = "none" /\ st.value # << >>
        THEN IF newHighlightedIndex >= itemsLength THEN 0
             ELSE IF newHighlightedIndex < 0 THEN itemsLength - 1
             ELSE newHighlightedIndex
      ELSE IF isArrowDown THEN 0
      ELSE IF isArrowUp THEN itemsLength - 1
      ELSE NULL

\* variant: a close keeps the highlighted index
handleStateChange_keepsHighlight(p, m, changes) ==
  LET st == m.state
      highlightedIndexOnArrowKeyOpen == getHighlightedIndexOnArrowKeyOpen(p, st, changes)
      newState ==
        [ open |-> changes.isOpen,
          highlightedIndex |->
            IF changes.isOpen /\ isNumber(highlightedIndexOnArrowKeyOpen)
            THEN highlightedIndexOnArrowKeyOpen
            ELSE st.highlightedIndex ]
      m1 == IF changes.hasIsOpen /\ changes.isOpen # st.open
            THEN trySetStateAndInvokeHandler(p,
                   IF changes.isOpen /\ p.search = "none"
                   THEN [m EXCEPT !.dom.focus = "list"] ELSE m,
                   "onOpenChange", newState)
            ELSE m
  IN  IF st.open /\ isNumber(changes.highlightedIndex)
      THEN [m1 EXCEPT !.state =
              trySetState(p, @, [highlightedIndex |-> changes.highlightedIndex])]
      ELSE m1

\* variant: isOpen is not compared with this.state.open
handleStateChange_unguarded(p, m, changes) ==
  LET st == m.state
      highlightedIndexOnArrowKeyOpen == getHighlightedIndexOnArrowKeyOpen(p, st, changes)
      newState ==
        [ open |-> changes.isOpen,
          highlightedIndex |->
            IF changes.isOpen
            THEN IF isNumber(highlightedIndexOnArrowKeyOpen)
                 THEN highlightedIndexOnArrowKeyOpen
                 ELSE st.highlightedIndex
            ELSE NULL ]
      m1 == IF changes.hasIsOpen
            THEN trySetStateAndInvokeHandler(p,
                   IF changes.isOpen /\ p.search = "none"
                   THEN [m EXCEPT !.dom.focus = "list"] ELSE m,
                   "onOpenChange", newState)
            ELSE m
  IN  IF st.open /\ isNumber(changes.highlightedIndex)
      THEN [m1 EXCEPT !.state =
              trySetState(p, @, [highlightedIndex |-> changes.highlightedIndex])]
      ELSE m1

\* variant: only a single-selection instance takes the open state from Downshift
handleStateChange_singleOnly(p, m, changes) ==
  LET st == m.state
      highlightedIndexOnArrowKeyOpen == getHighlightedIndexOnArrowKeyOpen(p, st, changes)
      newState ==
        [ open |-> changes.isOpen,
          highlightedIndex |->
            IF changes.isOpen
            THEN IF isNumber(highlightedIndexOnArrowKeyOpen)
                 THEN highlightedIndexOnArrowKeyOpen
                 ELSE st.highlightedIndex
            ELSE NULL ]
      m1 == IF /\ changes.hasIsOpen /\ changes.isOpen # st.open
               /\ (changes.isOpen \/ ~p.multiple)
            THEN trySetStateAndInvokeHandler(p,
                   IF changes.isOpen /\ p.search = "none"
                   THEN [m EXCEPT !.dom.focus = "list"] ELSE m,
                   "onOpenChange", newState)
            ELSE m
  IN  IF st.open /\ isNumber(changes.highlightedIndex)
      THEN [m1 EXCEPT !.state =
              trySetState(p, @, [highlightedIndex |-> changes.highlightedIndex])]
      ELSE m1

handleStateChange(p, m, changes) ==
  LET st == m.state
      highlightedIndexOnArrowKeyOpen == getHighlightedIndexOnArrowKeyOpen(p, st, changes)
      newState ==
        [ open |-> changes.isOpen,
          highlightedIndex |->
            IF changes.isOpen
            THEN IF isNumber(highlightedIndexOnArrowKeyOpen)
                 THEN highlightedIndexOnArrowKeyOpen
                 ELSE st.highlightedIndex
            ELSE NULL ]
      m1 == IF changes.hasIsOpen /\ changes.isOpen # st.open
            THEN trySetStateAndInvokeHandler(p,
                   IF changes.isOpen /\ p.search = "none"
                   THEN [m EXCEPT !.dom.focus = "list"] ELSE m,
                   "onOpenChange", newState)
            ELSE m
  IN  IF st.open /\ isNumber(changes.highlightedIndex)
      THEN [m1 EXCEPT !.state =
              trySetState(p, @, [highlightedIndex |-> changes.highlightedIndex])]
      ELSE m1

\* variant: an item value already holds is not added again
handleSelectedChange_dedups(p, m, item) ==
  LET st == m.state
      m1 == trySetStateAndInvokeHandler(p, m, "onSelectedChange",
              [ value |-> IF p.multiple
                          THEN IF item \in Range(st.value) THEN st.value
                               ELSE Append(st.value, item)
                          ELSE <<item>>,
                searchQuery |-> getSelectedItemAsString(p, item) ])
      m2 == IF ~p.multiple
            THEN [m1 EXCEPT !.state =
                    setState(@, [highlightedIndex |-> indexOf(p.items, item)])]
            ELSE m1
      m3 == IF p.getA11ySelectionMessage.onAdd
            THEN setA11ySelectionMessage(m2, onAdd(item))
            ELSE m2
      m4 == IF p.multiple
            THEN [m3 EXCEPT !.dom.scrollTimeouts = @ + 1]
            ELSE m3
  IN  tryFocusTriggerButton(p, m4)

\* variant: a single selection does not move the highlighted index
handleSelectedChange_noHighlight(p, m, item) ==
  LET st == m.state
      m1 == trySetStateAndInvokeHandler(p, m, "onSelectedChange",
              [ value |-> IF p.multiple THEN Append(st.value, item) ELSE <<item>>,
                searchQuery |-> getSelectedItemAsString(p, item) ])
      m3 == IF p.getA11ySelectionMessage.onAdd
            THEN setA11ySelectionMessage(m1, onAdd(item))
            ELSE m1
      m4 == IF p.multiple
            THEN [m3 EXCEPT !.dom.scrollTimeouts = @ + 1]
            ELSE m3
  IN  tryFocusTriggerButton(p, m4)

handleSelectedChange(p, m, item) ==
  LET st == m.state
      m1 == trySetStateAndInvokeHandler(p, m, "onSelectedChange",
              [ value |-> IF p.multiple THEN Append(st.value, item) ELSE <<item>>,
                searchQuery |-> getSelectedItemAsString(p, item) ])
      m2 == IF ~p.multiple
            THEN [m1 EXCEPT !.state =
                    setState(@, [highlightedIndex |-> indexOf(p.items, item)])]
            ELSE m1
      m3 == IF p.getA11ySelectionMessage.onAdd
            THEN setA11ySelectionMessage(m2, onAdd(item))
            ELSE m2
      m4 == IF p.multiple
            THEN [m3 EXCEPT !.dom.scrollTimeouts = @ + 1]
            ELSE m3
  IN  tryFocusTriggerButton(p, m4)

\* variant: the filter keeps the chips equal to item
removeItemFromValue_keepsEqual(p, m, item) ==
  LET st == m.state
      value == IF item # NoItem
               THEN SelectSeq(st.value, LAMBDA currentElement : currentElement = item)
               ELSE popped(st.value)
      poppedItem == IF item # NoItem THEN item
                    ELSE IF Len(st.value) > 0 THEN st.value[Len(st.value)]
                    ELSE NoItem
      m1 == IF item # NoItem THEN m ELSE [m EXCEPT !.state.value = value]
      m2 == IF p.getA11ySelectionMessage.onRemove
            THEN setA11ySelectionMessage(m1, onRemove(poppedItem))
            ELSE m1
  IN  trySetStateAndInvokeHandler(p, m2, "onSelectedChange", [value |-> value])

\* variant: the last chip is removed whatever item is
removeItemFromValue_alwaysPops(p, m, item) ==
  LET st == m.state
      value == popped(st.value)
      poppedItem == IF item # NoItem THEN item
                    ELSE IF Len(st.value) > 0 THEN st.value[Len(st.value)]
                    ELSE NoItem
      m1 == IF item # NoItem THEN m ELSE [m EXCEPT !.state.value = value]
      m2 == IF p.getA11ySelectionMessage.onRemove
            THEN setA11ySelectionMessage(m1, onRemove(poppedItem))
            ELSE m1
  IN  trySetStateAndInvokeHandler(p, m2, "onSelectedChange", [value |-> value])

\* removeItemFromValue(item?): item = NoItem is the call without an argument.
\* value.pop() changes the array this.state.value holds in place.
removeItemFromValue(p, m, item) ==
  LET st == m.state
      value == IF item # NoItem
               THEN SelectSeq(st.value, LAMBDA currentElement : currentElement # item)
               ELSE popped(st.value)
      poppedItem == IF item # NoItem THEN item
                    ELSE IF Len(st.value) > 0 THEN st.value[Len(st.value)]
                    ELSE NoItem
      m1 == IF item # NoItem THEN m ELSE [m EXCEPT !.state.value = value]
      m2 == IF p.getA11ySelectionMessage.onRemove
            THEN setA11ySelectionMessage(m1, onRemove(poppedItem))
            ELSE m1
  IN  trySetStateAndInvokeHandler(p, m2, "onSelectedChange", [value |-> value])

handleSelectedItemRemove(p, m, item) ==
  LET m1 == [m EXCEPT !.state = trySetState(p, @, [activeSelectedIndex |-> NULL])]
      m2 == removeItemFromValue(p, m1, item)
  IN  tryFocusTriggerButton(p, tryFocusSearchInput(p, m2))

\* variant: an empty value is not tested for
tryRemoveItemFromValue_noLengthTest(p, m, selectionStart) ==
  IF /\ p.multiple
     /\ (m.state.searchQuery = << >> \/ selectionStart = 0)
  THEN removeItemFromValue(p, m, NoItem)
  ELSE m

\* variant: props.multiple is not tested for
tryRemoveItemFromValue_anyMode(p, m, selectionStart) ==
  IF /\ (m.state.searchQuery = << >> \/ selectionStart = 0)
     /\ Len(m.state.value) > 0
  THEN removeItemFromValue(p, m, NoItem)
  ELSE m

\* variant: the caret is not looked at
tryRemoveItemFromValue_emptyQueryOnly(p, m, selectionStart) ==
  IF /\ p.multiple
     /\ m.state.searchQuery = << >>
     /\ Len(m.state.value) > 0
  THEN removeItemFromValue(p, m, NoItem)
  ELSE m

\* selectionStart is this.inputRef.current.selectionStart, the caret
tryRemoveItemFromValue(p, m, selectionStart) ==
  IF /\ p.multiple
     /\ (m.state.searchQuery = << >> \/ selectionStart = 0)
     /\ Len(m.state.value) > 0
  THEN removeItemFromValue(p, m, NoItem)
  ELSE m

\* this.inputRef.current is set in search mode only
trySetLastSelectedItemAsActive(p, m, selectionStart) ==
  LET value == m.state.value
  IN  IF ~p.multiple \/ (p.search # "none" /\ selectionStart # 0) THEN m
      ELSE IF Len(value) > 0
      THEN IF m.state.activeSelectedIndex = Len(value) - 1
           THEN [m EXCEPT !.state =
                   trySetState(p, trySetState(p, @, [activeSelectedIndex |-> NULL]),
                               [activeSelectedIndex |-> Len(value) - 1])]
           ELSE [m EXCEPT !.state =
                   trySetState(p, @, [activeSelectedIndex |-> Len(value) - 1])]
      ELSE m

\* handleSelectedItemOverrides(item).onClick
handleSelectedItemClick(p, m, item) ==
  [m EXCEPT !.state =
     trySetState(p, @, [activeSelectedIndex |-> indexOf(m.state.value, item)])]

\* variant: the previous key does not stop at the first chip
handleSelectedItemKeyDown_noLowerBound(p, m, item, key) ==
  LET activeSelectedIndex == m.state.activeSelectedIndex
      value == m.state.value
      previousKey == IF p.rtl THEN "ArrowRight" ELSE "ArrowLeft"
      nextKey == IF p.rtl THEN "ArrowLeft" ELSE "ArrowRight"
  IN  IF key \in {"Delete", "Backspace"} THEN handleSelectedItemRemove(p, m, item)
      ELSE IF key = previousKey
      THEN IF Len(value) > 0 /\ ~isNil(activeSelectedIndex)
           THEN [m EXCEPT !.state =
                   trySetState(p, @, [activeSelectedIndex |-> activeSelectedIndex - 1])]
           ELSE m
      ELSE IF key = nextKey
      THEN IF Len(value) > 0 /\ ~isNil(activeSelectedIndex)
           THEN IF activeSelectedIndex < Len(value) - 1
                THEN [m EXCEPT !.state =
                        trySetState(p, @, [activeSelectedIndex |-> activeSelectedIndex + 1])]
                ELSE [m EXCEPT !.state =
                        trySetState(p, @, [activeSelectedIndex |-> NULL]),
                               !.dom.focus =
                        IF p.search # "none" THEN "input" ELSE "trigger"]
           ELSE m
      ELSE m

\* key is one of "Delete", "Backspace", "ArrowLeft", "ArrowRight"
handleSelectedItemKeyDown(p, m, item, key) ==
  LET activeSelectedIndex == m.state.activeSelectedIndex
      value == m.state.value
      previousKey == IF p.rtl THEN "ArrowRight" ELSE "ArrowLeft"
      nextKey == IF p.rtl THEN "ArrowLeft" ELSE "ArrowRight"
  IN  IF key \in {"Delete", "Backspace"} THEN handleSelectedItemRemove(p, m, item)
      ELSE IF key = previousKey
      THEN IF Len(value) > 0 /\ ~isNil(activeSelectedIndex) /\ activeSelectedIndex > 0
           THEN [m EXCEPT !.state =
                   trySetState(p, @, [activeSelectedIndex |-> activeSelectedIndex - 1])]
           ELSE m
      ELSE IF key = nextKey
      THEN IF Len(value) > 0 /\ ~isNil(activeSelectedIndex)
           THEN IF activeSelectedIndex < Len(value) - 1
                THEN [m EXCEPT !.state =
                        trySetState(p, @, [activeSelectedIndex |-> activeSelectedIndex + 1])]
                ELSE [m EXCEPT !.state =
                        trySetState(p, @, [activeSelectedIndex |-> NULL]),
                               !.dom.focus =
                        IF p.search # "none" THEN "input" ELSE "trigger"]
           ELSE m
      ELSE m

\* variant: open is left out of the reset
handleClear_keepsOpen(p, m) ==
  LET init == getInitialAutoControlledState(p)
      newState == [ activeSelectedIndex |-> init.activeSelectedIndex,
                    highlightedIndex    |-> init.highlightedIndex,
                    searchQuery         |-> init.searchQuery,
                    value               |-> init.value ]
      m1 == invoke(m, "onSelectedChange", newState)
      m2 == [m1 EXCEPT !.state = trySetState(p, @, newState)]
  IN  tryFocusTriggerButton(p, tryFocusSearchInput(p, m2))

\* variant: the listener is handed the value the state holds
handleClear_staleValue(p, m) ==
  LET init == getInitialAutoControlledState(p)
      newState == [ activeSelectedIndex |-> init.activeSelectedIndex,
                    highlightedIndex    |-> init.highlightedIndex,
                    open                |-> init.open,
                    searchQuery         |-> init.searchQuery,
                    value               |-> init.value ]
      m1 == invoke(m, "onSelectedChange", [newState EXCEPT !.value = m.state.value])
      m2 == [m1 EXCEPT !.state = trySetState(p, @, newState)]
  IN  tryFocusTriggerButton(p, tryFocusSearchInput(p, m2))

handleClear(p, m) ==
  LET init == getInitialAutoControlledState(p)
      newState == [ activeSelectedIndex |-> init.activeSelectedIndex,
                    highlightedIndex    |-> init.highlightedIndex,
                    open                |-> init.open,
                    searchQuery         |-> init.searchQuery,
                    value               |-> init.value ]
      m1 == invoke(m, "onSelectedChange", newState)
      m2 == [m1 EXCEPT !.state = trySetState(p, @, newState)]
  IN  tryFocusTriggerButton(p, tryFocusSearchInput(p, m2))

-----------------------------------------------------------------------------
(* Downshift, as the Dropdown wires it: isOpen, highlightedIndex and        *)
(* inputValue are controlled by the Dropdown's state, selectedItem is null, *)
(* and a change Downshift proposes goes through stateReducer, then to       *)
(* onInputValueChange, onStateChange (the keys that change) and onChange,   *)
(* with a render of the Dropdown after each callback.                       *)

\* variant: a blurButton change is never dropped
handleDownshiftStateChanges_passesBlur(dsState, changes, activeElement) ==
  changes

\* stateReducer: a blurButton change is dropped while the list has the focus
handleDownshiftStateChanges(dsState, changes, activeElement) ==
  IF changes.type = "blurButton" /\ dsState.isOpen /\ activeElement = "list"
  THEN [type |-> changes.type, hasIsOpen |-> FALSE, isOpen |-> FALSE,
        highlightedIndex |-> UNDEFINED, hasInputValue |-> FALSE,
        inputValue |-> << >>, selectedItem |-> NoItem]
  ELSE changes

Downshift_internalSetState(p, m, proposed) ==
  LET st0 == m.state
      changes == handleDownshiftStateChanges([isOpen |-> st0.open], proposed, m.dom.focus)
      m1 == IF changes.hasInputValue
            THEN render(p, handleSearchQueryChange(p, m, changes.inputValue))
            ELSE m
      isOpenChanges == changes.hasIsOpen /\ changes.isOpen # st0.open
      highlightChanges == /\ changes.highlightedIndex # UNDEFINED
                          /\ changes.highlightedIndex # st0.highlightedIndex
      inputChanges == /\ changes.hasInputValue
                      /\ (p.search = "none" \/ changes.inputValue # st0.searchQuery)
      m2 == IF isOpenChanges \/ highlightChanges \/ inputChanges
               \/ changes.selectedItem # NoItem
            THEN render(p, handleStateChange(p, m1,
                   [ type |-> changes.type,
                     hasIsOpen |-> isOpenChanges,
                     isOpen |-> changes.isOpen,
                     highlightedIndex |-> IF highlightChanges
                                          THEN changes.highlightedIndex
                                          ELSE UNDEFINED ]))
            ELSE m1
  IN  IF changes.selectedItem # NoItem
      THEN render(p, handleSelectedChange(p, m2, changes.selectedItem))
      ELSE m2

\* Downshift.selectItem: select the item and close the menu
Downshift_selectItem(p, m, item, type) ==
  Downshift_internalSetState(p, m,
    [ type |-> type, hasIsOpen |-> TRUE, isOpen |-> FALSE,
      highlightedIndex |-> NULL, hasInputValue |-> TRUE,
      inputValue |-> itemToString(item), selectedItem |-> item ])

\* Downshift.selectItemAtIndex: the items Downshift knows are the rendered
\* ones, state.filteredItems while open and none while closed
Downshift_selectItemAtIndex(p, m, itemIndex, type) ==
  IF m.state.open /\ itemIndex >= 0 /\ itemIndex < Len(m.state.filteredItems)
  THEN Downshift_selectItem(p, m, At(m.state.filteredItems, itemIndex), type)
  ELSE m

\* Downshift.toggleMenu
Downshift_toggleMenu(p, m) ==
  Downshift_internalSetState(p, m,
    [ type |-> "unknown", hasIsOpen |-> TRUE, isOpen |-> ~m.state.open,
      highlightedIndex |-> IF m.state.open THEN NULL ELSE UNDEFINED,
      hasInputValue |-> FALSE, inputValue |-> << >>, selectedItem |-> NoItem ])

\* Downshift.reset, which Escape and a blur of the toggle button call: isOpen
\* false, highlightedIndex null, inputValue itemToString(selectedItem), with
\* selectedItem null.  reset hands Downshift a function of its state, so
\* onInputValueChange runs while Downshift updates; deferred says that the
\* update it queues on the Dropdown is not applied yet when onStateChange
\* runs, so that handleStateChange reads the state the event started with.
Downshift_reset(p, m, type, deferred) ==
  LET proposed == [ type |-> type, hasIsOpen |-> TRUE, isOpen |-> FALSE,
                    highlightedIndex |-> NULL, hasInputValue |-> TRUE,
                    inputValue |-> itemToString(NoItem), selectedItem |-> NoItem ]
      st0 == m.state
      changes == handleDownshiftStateChanges([isOpen |-> st0.open], proposed, m.dom.focus)
      m1 == IF changes.hasInputValue
            THEN handleSearchQueryChange(p, m, changes.inputValue)
            ELSE m
      isOpenChanges == changes.hasIsOpen /\ changes.isOpen # st0.open
      onStateChange ==
        handleStateChange(p, [m1 EXCEPT !.state = st0],
          [ type |-> changes.type, hasIsOpen |-> isOpenChanges,
            isOpen |-> changes.isOpen, highlightedIndex |-> UNDEFINED ])
  IN  IF ~deferred THEN Downshift_internalSetState(p, m, proposed)
      ELSE IF isOpenChanges
      THEN render(p, [onStateChange EXCEPT !.state =
                        trySetState(p, m1.state,
                          [ open |-> changes.isOpen, highlightedIndex |-> NULL ])])
      ELSE render(p, m1)

\* highlightedIndex is the index the last render handed to the handler
handleTabSelection(p, m, highlightedIndex) ==
  IF m.state.open
  THEN IF ~isNil(highlightedIndex) /\ Len(m.state.filteredItems) # 0
       THEN Downshift_selectItemAtIndex(p, m, highlightedIndex, "unknown")
       ELSE Downshift_toggleMenu(p, m)
  ELSE m

\* handleSearchInputOverrides.handleInputKeyDown
handleInputKeyDown(p, m, key, selectionStart) ==
  IF key = "Tab" THEN handleTabSelection(p, m, m.state.highlightedIndex)
  ELSE IF key = "ArrowLeft"
  THEN IF ~p.rtl THEN trySetLastSelectedItemAsActive(p, m, selectionStart) ELSE m
  ELSE IF key = "ArrowRight"
  THEN IF p.rtl THEN trySetLastSelectedItemAsActive(p, m, selectionStart) ELSE m
  ELSE IF key = "Backspace" THEN tryRemoveItemFromValue(p, m, selectionStart)
  ELSE m

CharKeys == {"A", "B", "P"}

\* key is "Tab", "Escape" or one of CharKeys, the keys /[a-zA-Z0-9]/ accepts;
\* Downshift's own key handler resets on Escape and does nothing for a
\* character
handleListKeyDown(p, m, key, deferred) ==
  IF key = "Tab" THEN handleTabSelection(p, m, m.state.highlightedIndex)
  ELSE IF key = "Escape"
  THEN tryFocusTriggerButton(p, Downshift_reset(p, m, "keyDownEscape", deferred))
  ELSE IF key \in CharKeys THEN setHighlightedIndexOnCharKeyDown(p, m, <<key>>)
  ELSE m

\* variant: the layout is not looked at
handleTriggerButtonKeyDown_ignoresRtl(p, m, key) ==
  IF key = "ArrowLeft" THEN trySetLastSelectedItemAsActive(p, m, 0) ELSE m

handleTriggerButtonKeyDown(p, m, key) ==
  IF key = "ArrowLeft"
  THEN IF ~p.rtl THEN trySetLastSelectedItemAsActive(p, m, 0) ELSE m
  ELSE IF key = "ArrowRight"
  THEN IF p.rtl THEN trySetLastSelectedItemAsActive(p, m, 0) ELSE m
  ELSE m

-----------------------------------------------------------------------------
(* The state machine *)

Props ==
  { [ multiple |-> mu, search |-> se, highlightFirstItemOnOpen |-> hf,
      items |-> it, rtl |-> rt, placeholder |-> UNDEF_STR, controlled |-> {},
      getA11ySelectionMessage |-> [onAdd |-> an, onRemove |-> an] ] :
      mu \in BOOLEAN, se \in SearchKinds, hf \in BOOLEAN, it \in ItemLists,
      rt \in BOOLEAN, an \in BOOLEAN }

\* nothing has the focus, no timer was ever set
InitDom ==
  [ focus |-> "body", mounted |-> TRUE,
    a11yStatusTimeout |-> UNDEFINED, charKeysPressedTimeout |-> UNDEFINED,
    timers |-> {},
    clock |-> [s \in Signals |-> [sinceSet |-> NULL, rearmed |-> FALSE, expiries |-> 0]],
    scrollTimeouts |-> 0 ]

Init ==
  /\ props \in {p \in Props : /\ ~p.rtl /\ ~p.getA11ySelectionMessage.onAdd
                              /\ p.multiple => p.items \in ChipItemLists}
  /\ state = applyDerived(props, getInitialAutoControlledState(props))
  /\ notes = << >>
  /\ dom = InitDom
  /\ last = "init"

\* the machine an event starts from
Cur == [state |-> state, notes |-> << >>, dom |-> dom]

\* an event leaves the machine m; last names the event
Event(m, what) ==
  /\ dom.mounted
  /\ state' = applyDerived(props, m.state)
  /\ notes' = m.notes
  /\ dom' = m.dom
  /\ last' = what
  /\ UNCHANGED props

\* a select may run while the chip strip and the pending scrolls have room
SelectRoom ==
  props.multiple => Len(state.value) < MaxValue /\ dom.scrollTimeouts < MaxScroll

OpenTypes == {"keyDownArrowUp", "keyDownArrowDown", "clickButton"}

\* open(reason): Downshift reports isOpen: true
Open(type) ==
  Event(handleStateChange(props, Cur,
          [type |-> type, hasIsOpen |-> TRUE, isOpen |-> TRUE,
           highlightedIndex |-> UNDEFINED]),
        "open")

\* close(): Downshift reports isOpen: false
Close ==
  Event(handleStateChange(props, Cur,
          [type |-> "unknown", hasIsOpen |-> TRUE, isOpen |-> FALSE,
           highlightedIndex |-> UNDEFINED]),
        "close")

\* Downshift reports a highlight moved by the arrow keys or the mouse
Highlight(i) ==
  /\ i < Len(state.filteredItems)
  /\ Event(handleStateChange(props, Cur,
             [type |-> "keyDownArrowDown", hasIsOpen |-> FALSE, isOpen |-> FALSE,
              highlightedIndex |-> i]),
           "highlight")

\* setSearchQuery(text): Downshift reports the input's new value
SearchQueryChange(q) ==
  /\ props.search # "none"
  /\ Event(handleSearchQueryChange(props, Cur, q),
           "setSearchQuery")

\* select(item): a click on (or Enter at) candidate i of the open list
SelectItem(i) ==
  /\ state.open
  /\ i < Len(state.filteredItems)
  /\ SelectRoom
  /\ Event(Downshift_selectItemAtIndex(props, Cur, i, "clickItem"),
           "select")

\* Tab in the search input or in the list
Tab ==
  /\ SelectRoom
  /\ Event(handleTabSelection(props, Cur, state.highlightedIndex),
           "tab")

\* remove(item): the remove control of chip item
SelectedItemRemove(item) ==
  /\ props.multiple
  /\ item \in Range(state.value)
  /\ Event(handleSelectedItemRemove(props, Cur, item),
           "remove")

ChipKeys == {"Delete", "Backspace", "ArrowLeft", "ArrowRight"}

\* a key pressed on chip item
SelectedItemKeyDown(item, key) ==
  /\ props.multiple
  /\ item \in Range(state.value)
  /\ Event(handleSelectedItemKeyDown(props, Cur, item, key),
           "chip" \o key)

\* a click on chip item
SelectedItemClick(item) ==
  /\ props.multiple
  /\ item \in Range(state.value)
  /\ Event(handleSelectedItemClick(props, Cur, item),
           "chipClick")

InputKeys == {"ArrowLeft", "ArrowRight", "Backspace"}

\* a key pressed in the search input, the caret at selectionStart
InputKeyDown(key, selectionStart) ==
  /\ props.search # "none"
  /\ selectionStart <= Len(state.searchQuery)
  /\ Event(handleInputKeyDown(props, Cur, key, selectionStart),
           "input" \o key)

\* a key pressed on the trigger button
TriggerButtonKeyDown(key) ==
  /\ props.search = "none"
  /\ Event(handleTriggerButtonKeyDown(props, Cur, key),
           "trigger" \o key)

\* clear(): a click on the clear indicator, shown while value is not empty
Clear ==
  /\ ~isValueEmpty(state.value)
  /\ Event(handleClear(props, Cur), "clear")

\* the setTimeout(..., 0) callback of handleSelectedChange: scrolls the chip
\* strip, no state is written.  Its id is not kept and componentWillUnmount
\* does not clear it, so it runs after an unmount as well, and then reads
\* selectedItemsRef.current of the instance that is gone
ScrollToEnd ==
  /\ dom.scrollTimeouts > 0
  /\ dom' = [dom EXCEPT !.scrollTimeouts = @ - 1]
  /\ notes' = << >>
  /\ last' = "scrollToEnd"
  /\ UNCHANGED <<props, state>>

Next ==
  \/ \E type \in OpenTypes : Open(type)
  \/ Close
  \/ \E i \in 0..2 : Highlight(i)
  \/ \E q \in Queries : SearchQueryChange(q)
  \/ \E i \in 0..2 : SelectItem(i)
  \/ Tab
  \/ \E item \in {Apple, Banana, Cherry} : SelectedItemRemove(item)
  \/ \E item \in {Apple, Banana, Cherry}, key \in ChipKeys : SelectedItemKeyDown(item, key)
  \/ \E item \in {Apple, Banana, Cherry} : SelectedItemClick(item)
  \/ \E key \in InputKeys, selectionStart \in 0..1 : InputKeyDown(key, selectionStart)
  \/ \E key \in {"ArrowLeft", "ArrowRight"} : TriggerButtonKeyDown(key)
  \/ Clear
  \/ ScrollToEnd

Spec == Init /\ [][Next]_vars

-----------------------------------------------------------------------------
(* The timers: a multiple-selection instance without search that announces  *)
(* its selections, the keys typed on its list, the clock and the unmount    *)

\* a key pressed on the focused list
ListKeyDown(key) ==
  /\ props.search = "none"
  /\ dom.focus = "list"
  /\ SelectRoom
  /\ key \in CharKeys => Len(state.startingString) < MaxTyped
  /\ \E deferred \in BOOLEAN :
       Event(handleListKeyDown(props, Cur, key, deferred), "list" \o key)

\* d milliseconds pass; a timer that is due runs first
Advance(d) ==
  /\ \A t \in dom.timers : t.delay >= d
  /\ dom.scrollTimeouts = 0
  /\ dom' = [dom EXCEPT
       !.timers = {[t EXCEPT !.delay = @ - d] : t \in @},
       !.clock = [s \in Signals |->
                    [dom.clock[s] EXCEPT
                       !.sinceSet = IF @ = NULL THEN NULL ELSE Min(@ + d, Late)]]]
  /\ dom' # dom
  /\ notes' = << >>
  /\ last' = "advance"
  /\ UNCHANGED <<props, state>>

\* the callbacks handed to setTimeout by setA11ySelectionMessage and by
\* setStartingString
timerCallback(st, signal) ==
  setState(st, IF signal = "a11y"
               THEN [a11ySelectionStatus |-> << >>]
               ELSE [startingString |-> << >>])

\* handleTriggerButtonOrListFocus, handleTriggerButtonBlur and handleListBlur
\* write the focused flag, which no handler of the model reads; toPartner
\* says that the focus goes to the list (from the button) or to the button
\* (from the list)
handleTriggerButtonOrListFocus(st) == setState(st, [focused |-> TRUE])

handleBlur(st, toPartner) ==
  IF ~toPartner THEN setState(st, [focused |-> FALSE]) ELSE st

\* the callback of timer t: setState({ a11ySelectionStatus: '' }) or
\* setState({ startingString: '' }), which React ignores after the unmount
TimerFires(t) ==
  /\ t \in dom.timers
  /\ t.delay = 0
  /\ dom' = [dom EXCEPT !.timers = @ \ {t},
                        !.clock[t.signal].expiries = Min(@ + 1, 2)]
  /\ state' = IF dom.mounted
              THEN applyDerived(props, timerCallback(state, t.signal))
              ELSE state
  /\ notes' = << >>
  /\ last' = t.signal \o "Expiry"
  /\ UNCHANGED props

Unmount ==
  /\ dom.mounted
  /\ dom' = [componentWillUnmount(dom) EXCEPT !.mounted = FALSE]
  /\ notes' = << >>
  /\ last' = "unmount"
  /\ UNCHANGED <<props, state>>

InitTimers ==
  /\ props \in {p \in Props : /\ p.multiple /\ p.search = "none" /\ ~p.rtl
                              /\ ~p.highlightFirstItemOnOpen
                              /\ p.getA11ySelectionMessage.onAdd
                              /\ p.items = <<Apple, Banana>>}
  /\ state = applyDerived(props, getInitialAutoControlledState(props))
  /\ notes = << >>
  /\ dom = InitDom
  /\ last = "init"

NextTimers ==
  \/ \E type \in OpenTypes : Open(type)
  \/ Close
  \/ \E i \in 0..2 : SelectItem(i)
  \/ \E item \in {Apple, Banana} : SelectedItemRemove(item)
  \/ \E key \in {"A", "B", "Tab"} : ListKeyDown(key)
  \/ \E d \in AdvanceSteps : Advance(d)
  \/ \E t \in dom.timers : TimerFires(t)
  \/ ScrollToEnd
  \/ Unmount

SpecTimers == InitTimers /\ [][NextTimers]_vars

-----------------------------------------------------------------------------
(* Type-ahead in the list of a single-selection dropdown without search,  *)
(* two of its items starting with the same letters                         *)

TypeAheadItems == <<Apple, Apricot, Banana>>

InitTypeAhead ==
  /\ props \in {[p EXCEPT !.items = TypeAheadItems] :
                  p \in {q \in Props : /\ ~q.multiple /\ q.search = "none" /\ ~q.rtl
                                       /\ ~q.highlightFirstItemOnOpen
                                       /\ ~q.getA11ySelectionMessage.onAdd
                                       /\ q.items = << >>}}
  /\ state = applyDerived(props, getInitialAutoControlledState(props))
  /\ notes = << >>
  /\ dom = InitDom
  /\ last = "init"

NextTypeAhead ==
  \/ \E type \in OpenTypes : Open(type)
  \/ Close
  \/ \E i \in 0..2 : Highlight(i)
  \/ \E key \in CharKeys \cup {"Tab"} : ListKeyDown(key)
  \/ \E d \in AdvanceSteps : Advance(d)
  \/ \E t \in dom.timers : TimerFires(t)

SpecTypeAhead == InitTypeAhead /\ [][NextTypeAhead]_vars

-----------------------------------------------------------------------------
(* The announcements of a multiple-selection dropdown without search, with *)
(* and without the formatters; the browser lets time pass and runs the     *)
(* callbacks that are due                                                   *)

InitAnnounce ==
  /\ props \in {p \in Props : /\ p.multiple /\ p.search = "none" /\ ~p.rtl
                              /\ ~p.highlightFirstItemOnOpen
                              /\ p.items = <<Apple, Banana>>}
  /\ state = applyDerived(props, getInitialAutoControlledState(props))
  /\ notes = << >>
  /\ dom = InitDom
  /\ last = "init"

NextAnnounce ==
  \/ \E type \in OpenTypes : Open(type)
  \/ Close
  \/ \E i \in 0..1 : SelectItem(i)
  \/ \E item \in {Apple, Banana} : SelectedItemRemove(item)
  \/ \E d \in AdvanceSteps : Advance(d)
  \/ \E t \in dom.timers : TimerFires(t)
  \/ ScrollToEnd
  \/ Unmount

SpecAnnounce ==
  /\ InitAnnounce /\ [][NextAnnounce]_vars
  /\ WF_vars(\E d \in AdvanceSteps : Advance(d))
  /\ WF_vars(\E t \in dom.timers : TimerFires(t))
  /\ WF_vars(ScrollToEnd)

-----------------------------------------------------------------------------
(* Focus: the blur of the trigger button, Escape, and the click that puts  *)
(* the caret into the search input                                          *)

\* Downshift's blur handler of the toggle button, run from its timeout once
\* the focus has left the button
TriggerButtonBlur ==
  /\ props.search = "none"
  /\ dom.focus # "trigger"
  /\ \E deferred \in BOOLEAN :
       Event(Downshift_reset(props, Cur, "blurButton", deferred), "triggerBlur")

\* Escape in the search input goes to Downshift's key handler alone
InputEscape ==
  /\ props.search # "none"
  /\ dom.focus = "input"
  /\ \E deferred \in BOOLEAN :
       Event(Downshift_reset(props, Cur, "keyDownEscape", deferred), "inputEscape")

\* handleContainerClick, wired while search is on and the list is closed
ContainerClick ==
  /\ props.search # "none"
  /\ ~state.open
  /\ Event(tryFocusSearchInput(props, Cur), "containerClick")

\* the focus goes to an element outside the dropdown; the blur handlers of
\* the Dropdown write the focused flag only, and the search input keeps
\* Downshift's blur handler from running (preventDownshiftDefault)
FocusElsewhere ==
  /\ dom.mounted
  /\ dom.focus # "body"
  /\ dom' = [dom EXCEPT !.focus = "body"]
  /\ notes' = << >>
  /\ last' = "focusElsewhere"
  /\ UNCHANGED <<props, state>>

InitFocus ==
  /\ props \in {p \in Props : /\ ~p.rtl /\ ~p.getA11ySelectionMessage.onAdd
                              /\ p.search \in {"none", "text"}
                              /\ p.items = <<Apple, Banana>>}
  /\ state = applyDerived(props, getInitialAutoControlledState(props))
  /\ notes = << >>
  /\ dom = InitDom
  /\ last = "init"

NextFocus ==
  \/ \E type \in OpenTypes : Open(type)
  \/ Close
  \/ \E i \in 0..1 : Highlight(i)
  \/ \E q \in {<< >>, <<"a">>} : SearchQueryChange(q)
  \/ \E i \in 0..1 : SelectItem(i)
  \/ \E key \in {"Tab", "Escape"} : ListKeyDown(key)
  \/ TriggerButtonBlur
  \/ InputEscape
  \/ ContainerClick
  \/ FocusElsewhere
  \/ ScrollToEnd

SpecFocus == InitFocus /\ [][NextFocus]_vars

-----------------------------------------------------------------------------
(* The chips of a multiple-selection dropdown under both layouts *)

InitRtl ==
  /\ props \in {p \in Props : /\ p.multiple /\ ~p.getA11ySelectionMessage.onAdd
                              /\ ~p.highlightFirstItemOnOpen
                              /\ p.search \in {"none", "text"}
                              /\ p.items = <<Apple, Banana>>}
  /\ state = applyDerived(props, getInitialAutoControlledState(props))
  /\ notes = << >>
  /\ dom = InitDom
  /\ last = "init"

NextRtl ==
  \/ \E type \in OpenTypes : Open(type)
  \/ Close
  \/ \E i \in 0..1 : SelectItem(i)
  \/ \E item \in {Apple, Banana} : SelectedItemRemove(item)
  \/ \E item \in {Apple, Banana}, key \in ChipKeys : SelectedItemKeyDown(item, key)
  \/ \E item \in {Apple, Banana} : SelectedItemClick(item)
  \/ \E key \in InputKeys, selectionStart \in 0..1 : InputKeyDown(key, selectionStart)
  \/ \E key \in {"ArrowLeft", "ArrowRight"} : TriggerButtonKeyDown(key)
  \/ \E q \in {<< >>, <<"a">>} : SearchQueryChange(q)
  \/ ScrollToEnd

SpecRtl == InitRtl /\ [][NextRtl]_vars

-----------------------------------------------------------------------------
(* A multiple-selection dropdown whose value the parent controls and never *)
(* replaces: state.value is the array the parent handed in, the very       *)
(* object props.value refers to                                            *)

CallerValue == <<Apple, Banana>>

InitControlled ==
  /\ props \in {[p EXCEPT !.controlled = {"value"}] :
                  p \in {q \in Props : /\ q.multiple /\ ~q.rtl
                                       /\ ~q.getA11ySelectionMessage.onAdd
                                       /\ ~q.highlightFirstItemOnOpen
                                       /\ q.search \in {"none", "text"}
                                       /\ q.items = <<Apple, Banana, Cherry>>}}
  /\ state = applyDerived(props,
               [getInitialAutoControlledState(props) EXCEPT !.value = CallerValue])
  /\ notes = << >>
  /\ dom = InitDom
  /\ last = "init"

NextControlled ==
  \/ \E type \in OpenTypes : Open(type)
  \/ Close
  \/ \E i \in 0..2 : SelectItem(i)
  \/ \E q \in {<< >>, <<"a">>} : SearchQueryChange(q)
  \/ \E item \in {Apple, Banana} : SelectedItemRemove(item)
  \/ \E item \in {Apple, Banana}, key \in ChipKeys : SelectedItemKeyDown(item, key)
  \/ \E item \in {Apple, Banana} : SelectedItemClick(item)
  \/ \E key \in InputKeys, selectionStart \in 0..1 : InputKeyDown(key, selectionStart)
  \/ Clear
  \/ ScrollToEnd

SpecControlled == InitControlled /\ [][NextControlled]_vars

-----------------------------------------------------------------------------
(* Claims *)

Disjoint(a, b) == Range(a) \cap Range(b) = {}

\* C1 as stated: in every reachable state of a multiple-selection instance,
\* whatever props.search is, no element of value is in filteredItems.
C1_ExclusiveAnySearch ==
  props.multiple => Disjoint(state.value, state.filteredItems)

\* C1, amended: in every reachable state of a multiple-selection instance
\* without search, with text search, or with a search function that returns
\* only candidates it was handed, no element of value is in filteredItems.
C1_Exclusive ==
  (props.multiple /\ props.search # "ownListFn")
    => Disjoint(state.value, state.filteredItems)

C1_Witness ==
  /\ props.multiple /\ props.search = "prefixFn" /\ state.open
  /\ state.value = <<Banana>> /\ state.filteredItems = <<Apple>>

\* C2: while the panel is open, highlightedIndex is null or an index of
\* filteredItems.
C2_HighlightBounds ==
  state.open =>
    \/ state.highlightedIndex = NULL
    \/ (0 <= state.highlightedIndex /\ state.highlightedIndex < Len(state.filteredItems))

\* C3: close() on an open panel leaves it closed with highlightedIndex null
\* and leaves value and searchQuery as they were.
C3_CloseFromOpen ==
  [][(Close /\ state.open) =>
       /\ ~state'.open
       /\ state'.highlightedIndex = NULL
       /\ state'.value = state.value
       /\ state'.searchQuery = state.searchQuery]_vars

C3_Witness ==
  /\ last = "close" /\ ~state.open /\ state.highlightedIndex = NULL
  /\ Len(notes) = 1 /\ notes[1].handler = "onOpenChange"
  /\ state.value # << >> /\ state.searchQuery = <<"a">>

\* C4: close() on a closed panel changes no state field and emits no
\* notification.
C4_CloseIdempotent ==
  [][(Close /\ ~state.open) => (state' = state /\ notes' = << >>)]_vars

C4_Witness ==
  /\ last = "close" /\ notes = << >> /\ ~state.open
  /\ isNumber(state.highlightedIndex) /\ state.value # << >>

\* C5: select(item) in single mode leaves value = item, searchQuery =
\* itemToString(item) and the panel closed.
C5_SelectSingle ==
  [][\A i \in 0..2 :
       (SelectItem(i) /\ ~props.multiple) =>
         /\ state'.value = <<At(state.filteredItems, i)>>
         /\ state'.searchQuery = itemToString(At(state.filteredItems, i))
         /\ ~state'.open]_vars

C5_Witness ==
  /\ last = "select" /\ ~props.multiple /\ ~state.open
  /\ state.value = <<Banana>> /\ state.searchQuery = Banana.header

\* C6: select(item) in multiple mode appends item at the end of value, also
\* when value already holds it, and sets searchQuery to the empty string.
C6_SelectMultiAppends ==
  [][\A i \in 0..2 :
       (SelectItem(i) /\ props.multiple) =>
         /\ state'.value = Append(state.value, At(state.filteredItems, i))
         /\ state'.searchQuery = << >>]_vars

C6_Witness ==
  /\ last = "select" /\ props.multiple /\ state.searchQuery = << >>
  /\ state.value = <<Apple, Apple>>

AfterSelect(i) ==
  Downshift_selectItemAtIndex(props, Cur, i, "clickItem")

AfterSelectRemove(i) ==
  render(props,
         handleSelectedItemRemove(props, [AfterSelect(i) EXCEPT !.notes = << >>],
                                  At(state.filteredItems, i)))

RoundTripRestores(i) ==
  LET m == AfterSelectRemove(i)
  IN  /\ m.state.value = state.value
      /\ (props.search = "none" \/ m.state.searchQuery = state.searchQuery)
           => m.state.filteredItems = state.filteredItems

\* C8 as stated: in multiple mode, from any reachable state and for any item
\* that can be selected, select(item) followed by remove(item) restores value
\* and, when searchQuery is unchanged, filteredItems.
C8_RoundTripAnyItem ==
  (props.multiple /\ state.open) =>
    \A i \in 0..2 : i < Len(state.filteredItems) => RoundTripRestores(i)

\* C8, amended: the same for any item that value does not hold already.
C8_RoundTrip ==
  (props.multiple /\ state.open) =>
    \A i \in 0..2 :
      (i < Len(state.filteredItems) /\ At(state.filteredItems, i) \notin Range(state.value))
        => RoundTripRestores(i)

\* the round trip at its middle: Banana was just added after Apple, and its
\* removal gives back <<Apple>> and the candidate Banana
C8_Witness ==
  /\ last = "select" /\ props.multiple /\ props.search = "none"
  /\ state.value = <<Apple, Banana>> /\ state.filteredItems = << >>
  /\ LET m == render(props, handleSelectedItemRemove(props, Cur, Banana))
     IN  m.state.value = <<Apple>> /\ m.state.filteredItems = <<Banana>>

\* value without the chip at position k
WithoutChip(value, k) ==
  SubSeq(value, 1, k - 1) \o SubSeq(value, k + 1, Len(value))

C10_ActiveIndexValid ==
  props.multiple =>
    \/ state.activeSelectedIndex = NULL
    \/ (0 <= state.activeSelectedIndex /\ state.activeSelectedIndex < Len(state.value))

\* C11: Backspace in the search input of a multiple-selection instance whose
\* value is empty changes no state field, no timer and no focus, and emits no
\* notification.
C11_RemoveLastOnEmpty ==
  [][\A c \in 0..1 :
       (InputKeyDown("Backspace", c) /\ props.multiple /\ state.value = << >>)
         => (state' = state /\ dom' = dom /\ notes' = << >>)]_vars

C11_Witness ==
  /\ last = "inputBackspace" /\ props.multiple /\ state.value = << >>
  /\ state.searchQuery = << >> /\ state.open /\ notes = << >>

\* what a multiple-only operation must leave alone in single mode
SingleUntouched ==
  /\ state'.value = state.value
  /\ state'.activeSelectedIndex = state.activeSelectedIndex
  /\ notes' = << >>

\* C12: in single mode Backspace, ArrowLeft and ArrowRight in the search input,
\* ArrowLeft and ArrowRight on the trigger button, and the arrow keys of
\* handleSelectedItemKeyDown leave value and activeSelectedIndex unchanged
\* and emit no notification.
C12_SingleModeNoOps ==
  [][~props.multiple =>
       /\ \A key \in InputKeys, c \in 0..1 :
            InputKeyDown(key, c) => SingleUntouched
       /\ \A key \in {"ArrowLeft", "ArrowRight"} :
            TriggerButtonKeyDown(key) => SingleUntouched
       /\ \A item \in Range(state.value), key \in {"ArrowLeft", "ArrowRight"} :
            LET m == handleSelectedItemKeyDown(props, Cur, item, key)
            IN  m.state = state /\ m.notes = << >>]_vars

C12_Witness ==
  /\ last = "inputBackspace" /\ ~props.multiple /\ notes = << >>
  /\ state.value = <<Apple>> /\ state.searchQuery = << >>

\* C13 as stated: clear() leaves value empty, searchQuery empty,
\* highlightedIndex null, activeSelectedIndex null or undefined and the panel
\* closed.
C13_ClearToNone ==
  [][Clear =>
       /\ state'.value = << >>
       /\ state'.searchQuery \in {<< >>, UNDEF_STR}
       /\ state'.highlightedIndex = NULL
       /\ isNil(state'.activeSelectedIndex)
       /\ ~state'.open]_vars

\* C13, amended: clear() leaves value, searchQuery, highlightedIndex,
\* activeSelectedIndex and open at the values of getInitialAutoControlledState:
\* value empty, searchQuery empty, activeSelectedIndex null or undefined, the
\* panel closed, and highlightedIndex 0 under highlightFirstItemOnOpen and
\* null otherwise.
C13_ClearToInitial ==
  [][Clear =>
       /\ state'.value = << >>
       /\ state'.searchQuery = (IF props.search # "none" THEN << >> ELSE UNDEF_STR)
       /\ state'.highlightedIndex = (IF props.highlightFirstItemOnOpen THEN 0 ELSE NULL)
       /\ state'.activeSelectedIndex = (IF props.multiple THEN NULL ELSE UNDEFINED)
       /\ ~state'.open]_vars

C13_Witness ==
  /\ last = "clear" /\ props.highlightFirstItemOnOpen /\ props.multiple
  /\ state.value = << >> /\ state.highlightedIndex = 0 /\ ~state.open
  /\ state.activeSelectedIndex = NULL /\ state.searchQuery = << >>

\* the payload of a notification carries the reset values
ResetPayload(data) ==
  /\ data.value = << >>
  /\ data.searchQuery \in {<< >>, UNDEF_STR}
  /\ data.open = FALSE
  /\ data.highlightedIndex = (IF props.highlightFirstItemOnOpen THEN 0 ELSE NULL)
  /\ isNil(data.activeSelectedIndex)

\* C14 as stated: one clear() emits exactly one onSelectedChange, its payload
\* carries the reset values, and the state has been set to them by the time
\* the listener runs.
C14_ClearNotifiesAfterSet ==
  [][Clear =>
       /\ Len(notes') = 1 /\ notes'[1].handler = "onSelectedChange"
       /\ ResetPayload(notes'[1].data)
       /\ notes'[1].stateSet]_vars

\* C14, amended: one clear() emits exactly one onSelectedChange, its payload
\* carries the reset values, the listener runs before the state is set, and
\* the state holds the payload's values when the event is over.
C14_ClearNotifiesOnce ==
  [][Clear =>
       /\ Len(notes') = 1 /\ notes'[1].handler = "onSelectedChange"
       /\ ResetPayload(notes'[1].data)
       /\ ~notes'[1].stateSet
       /\ \A k \in DOMAIN notes'[1].data : state'[k] = notes'[1].data[k]]_vars

C14_Witness ==
  /\ last = "clear" /\ Len(notes) = 1 /\ notes[1].handler = "onSelectedChange"
  /\ ~notes[1].stateSet /\ notes[1].data.value = << >> /\ state.value = << >>
  /\ ~props.multiple /\ dom.focus = "trigger"

\* C15 as stated: setSearchQuery(text) closes the panel exactly when text is
\* empty and the previous searchQuery was not; otherwise open is unchanged.
C15_ForceCloseWhenNarrowed ==
  [][\A q \in Queries :
       SearchQueryChange(q) =>
         state'.open = (IF q = << >> /\ state.searchQuery # << >>
                        THEN FALSE ELSE state.open)]_vars

\* C15, amended: setSearchQuery(text) closes the panel whenever text is empty,
\* whatever the previous searchQuery was; for a non-empty text open is
\* unchanged.
C15_ForceCloseOnEmpty ==
  [][\A q \in Queries :
       SearchQueryChange(q) =>
         state'.open = (IF q = << >> THEN FALSE ELSE state.open)]_vars

\* an open panel with an empty query that setSearchQuery("") closes
C15_Witness ==
  /\ props.search = "text" /\ state.open /\ state.searchQuery = << >>
  /\ ENABLED SearchQueryChange(<< >>)
  /\ ~render(props, handleSearchQueryChange(props, Cur, << >>)).state.open

CleanupTime(signal) ==
  IF signal = "a11y" THEN a11yStatusCleanupTime ELSE charKeyPressedCleanupTime

Pending(signal) == {t \in dom.timers : t.signal = signal}

\* C16: for the selection announcement and the type-ahead buffer, a timer of
\* the signal expires only when its cleanup time has passed since the last set
\* call and nothing has expired since that call, and until then the timer of
\* the last set call is the one pending: set calls less than the cleanup time
\* apart end in one expiry, timed from the last of them.
C16_Debounce ==
  [][/\ \A t \in dom.timers :
          TimerFires(t) =>
            /\ dom.clock[t.signal].sinceSet = CleanupTime(t.signal)
            /\ dom.clock[t.signal].expiries = 0
            /\ state'[IF t.signal = "a11y" THEN "a11ySelectionStatus"
                      ELSE "startingString"] = << >>
     /\ \A s \in Signals :
          (dom.mounted /\ dom.clock[s].sinceSet # NULL /\ dom.clock[s].expiries = 0)
            => \E t \in Pending(s) :
                 t.delay = CleanupTime(s) - dom.clock[s].sinceSet]_vars

C16_Witness ==
  /\ last = "a11yExpiry" /\ dom.clock["a11y"].rearmed
  /\ dom.clock["a11y"].expiries = 1
  /\ dom.clock["a11y"].sinceSet = a11yStatusCleanupTime
  /\ Pending("a11y") = {} /\ state.a11ySelectionStatus = << >>

\* C17: in every reachable state each of the two signals has at most one
\* timer pending.
C17_OnePendingTimer ==
  \A s \in Signals : Cardinality(Pending(s)) <= 1

C17_Witness ==
  /\ last = "listB" /\ dom.clock["charKeys"].rearmed
  /\ dom.clock["charKeys"].sinceSet = 0
  /\ \E t \in dom.timers :
       Pending("charKeys") = {t} /\ t.delay = charKeyPressedCleanupTime
  /\ Cardinality(Pending("a11y")) = 1

\* C18: once the instance is unmounted no timer of either signal is pending,
\* none expires and no state field changes.
C18_Teardown ==
  [][~dom'.mounted =>
       /\ \A s \in Signals : {t \in dom'.timers : t.signal = s} = {}
       /\ last' \notin {"a11yExpiry", "charKeysExpiry"}
       /\ state' = state]_vars

C18_Witness ==
  /\ ~dom.mounted /\ last = "advance"
  /\ \A s \in Signals :
       /\ dom.clock[s].sinceSet = Late /\ dom.clock[s].expiries = 0
       /\ Pending(s) = {}
  /\ state.a11ySelectionStatus # << >> /\ state.startingString # << >>

\* q occurs in s at some position
Contains(s, q) ==
  \E i \in 1..(Len(s) - Len(q) + 1) : SubSeq(s, i, i + Len(q) - 1) = q

\* C19: with text search, filteredItems is the subsequence, in the order of
\* items, of the candidates (items, without the elements of value in multiple
\* mode) whose lower-cased string contains the lower-cased searchQuery at
\* some position.
C19_TextFilter ==
  props.search = "text" =>
    state.filteredItems =
      SelectSeq(props.items,
                LAMBDA item :
                  /\ props.multiple => item \notin Range(state.value)
                  /\ Contains(toLowerCase(itemToString(item)),
                              toLowerCase(state.searchQuery)))

C19_Witness ==
  /\ props.search = "text" /\ props.items = <<Apple, Banana, Cherry>>
  /\ state.searchQuery = <<"A", "N">> /\ state.filteredItems = <<Banana>>

\* C20: when the panel goes from closed to open while highlightedIndex holds
\* an index i >= 0, highlightedIndex is i afterwards, whatever the reason of
\* the open, highlightFirstItemOnOpen and value are.
C20_PendingHighlightKept ==
  [][\A type \in OpenTypes :
       (/\ Open(type) /\ ~state.open /\ state'.open
        /\ isNumber(state.highlightedIndex) /\ state.highlightedIndex >= 0)
         => state'.highlightedIndex = state.highlightedIndex]_vars

\* the single-selection, non-search dropdown holds a selected item
SelectedItemRule == ~props.multiple /\ props.search = "none" /\ state.value # << >>

\* C21: when a closed single-selection, non-search dropdown with a selected
\* item, no highlighted index and highlightFirstItemOnOpen off is opened,
\* highlightedIndex becomes the index of the selected item in items plus -1
\* (arrow up), +1 (arrow down) or 0 (any other open); a result below 0 becomes
\* the last candidate index and a result past the last candidate becomes 0.
C21_OpenAtSelected ==
  [][\A type \in OpenTypes :
       (/\ Open(type) /\ ~state.open /\ SelectedItemRule
        /\ state.highlightedIndex = NULL /\ ~props.highlightFirstItemOnOpen)
         => LET off == IF type = "keyDownArrowUp" THEN -1
                       ELSE IF type = "keyDownArrowDown" THEN 1 ELSE 0
                n == indexOf(props.items, state.value[1]) + off
                count == Len(state.filteredItems)
            IN  /\ state'.open
                /\ state'.highlightedIndex =
                     IF n < 0 THEN count - 1 ELSE IF n >= count THEN 0 ELSE n]_vars

\* an arrow-up open with the first item selected has wrapped to the last one
C21_Witness ==
  /\ last = "open" /\ state.open /\ SelectedItemRule
  /\ ~props.highlightFirstItemOnOpen
  /\ Len(notes) = 1 /\ notes[1].handler = "onOpenChange"
  /\ state.value = <<Apple>> /\ Len(props.items) = 3
  /\ state.highlightedIndex = 2

\* C22: when a closed dropdown with no highlighted index is opened,
\* highlightFirstItemOnOpen makes highlightedIndex 0; without it, and when the
\* dropdown is not a single-selection non-search one with a selected item,
\* arrow down gives 0, arrow up gives Len(filteredItems) - 1 and any other
\* open leaves highlightedIndex empty.
C22_OpenRules ==
  [][\A type \in OpenTypes :
       (Open(type) /\ ~state.open /\ state.highlightedIndex = NULL)
         => /\ state'.open
            /\ props.highlightFirstItemOnOpen => state'.highlightedIndex = 0
            /\ (~props.highlightFirstItemOnOpen /\ ~SelectedItemRule)
                 => state'.highlightedIndex =
                      IF type = "keyDownArrowDown" THEN 0
                      ELSE IF type = "keyDownArrowUp"
                           THEN Len(state.filteredItems) - 1
                      ELSE NULL]_vars

\* highlightFirstItemOnOpen has put 0 where a selected item sits at index 1
C22_Witness ==
  /\ last = "open" /\ state.open /\ props.highlightFirstItemOnOpen
  /\ Len(notes) = 1 /\ notes[1].handler = "onOpenChange"
  /\ SelectedItemRule /\ state.value = <<Banana>>
  /\ state.highlightedIndex = 0

\* the candidates whose lower-cased text starts with buffer
Matches(buffer) ==
  {i \in 0..(Len(state.filteredItems) - 1) :
     startsWith(toLowerCase(itemToString(At(state.filteredItems, i))), buffer)}

\* the first match at or after start, the first match of all when there is
\* none, the highlighted index as it is when nothing matches
ScanFrom(buffer, start) ==
  LET forward == {i \in Matches(buffer) : i >= start}
      first(S) == CHOOSE i \in S : \A j \in S : i <= j
  IN  IF Matches(buffer) = {} THEN state.highlightedIndex
      ELSE IF forward # {} THEN first(forward)
      ELSE first(Matches(buffer))

\* C23 as stated: a character key on the list appends the lower-cased
\* character to startingString and highlights the first candidate starting
\* with it, scanning from just after the highlighted index, from index 0 when
\* nothing is highlighted or startingString was empty, and from index 0 again
\* when nothing matches forward; without a match highlightedIndex stays.
C23_ScanAfterHighlighted ==
  [][\A key \in CharKeys :
       ListKeyDown(key)
         => LET buffer == state.startingString \o <<toLowerChar(key)>>
                start == IF /\ isNumber(state.highlightedIndex)
                            /\ state.startingString # << >>
                         THEN state.highlightedIndex + 1 ELSE 0
            IN  /\ state'.startingString = buffer
                /\ state'.highlightedIndex = ScanFrom(buffer, start)]_vars

\* C23 amended: the scan starts just after the highlighted index when
\* startingString was empty before the key, at the highlighted index itself
\* when startingString already held characters, and at index 0 when nothing
\* is highlighted.
C23_ScanByBuffer ==
  [][\A key \in CharKeys :
       ListKeyDown(key)
         => LET buffer == state.startingString \o <<toLowerChar(key)>>
                start == IF isNumber(state.highlightedIndex)
                         THEN IF state.startingString = << >>
                              THEN state.highlightedIndex + 1
                              ELSE state.highlightedIndex
                         ELSE 0
            IN  /\ state'.startingString = buffer
                /\ state'.highlightedIndex = ScanFrom(buffer, start)]_vars

\* "p" after "a" has kept the highlight on Apricot, which "ap" matches,
\* although Apple comes first
C23_Witness ==
  /\ last = "listP" /\ state.startingString = <<"a", "p">>
  /\ state.open /\ state.highlightedIndex = 1
  /\ At(state.filteredItems, 1) = Apricot /\ At(state.filteredItems, 0) = Apple

\* C24 as stated: Backspace in the search input of a multiple-selection
\* dropdown takes the last chip off value exactly when searchQuery is empty
\* and value is not; in every other case value stays as it is.
C24_BackspaceOnEmptyQuery ==
  [][\A selectionStart \in 0..1 :
       (InputKeyDown("Backspace", selectionStart) /\ props.multiple)
         => state'.value =
              IF state.searchQuery = << >> /\ state.value # << >>
              THEN popped(state.value) ELSE state.value]_vars

\* C24 amended: the last chip goes exactly when value is not empty and
\* either searchQuery is empty or the caret is at position 0, also in front
\* of a non-empty searchQuery; otherwise value stays as it is.
C24_BackspaceAtCaretZero ==
  [][\A selectionStart \in 0..1 :
       (InputKeyDown("Backspace", selectionStart) /\ props.multiple)
         => state'.value =
              IF /\ state.value # << >>
                 /\ (state.searchQuery = << >> \/ selectionStart = 0)
              THEN popped(state.value) ELSE state.value]_vars

\* a Backspace in front of the text "a" has taken a chip off
C24_Witness ==
  /\ last = "inputBackspace" /\ props.multiple
  /\ state.searchQuery = <<"a">>
  /\ Len(notes) > 0 /\ notes[1].handler = "onSelectedChange"
  /\ Len(notes[1].data.value) < MaxValue

\* the highlighted index points at a candidate
HighlightedCandidate ==
  /\ isNumber(state.highlightedIndex)
  /\ state.highlightedIndex >= 0
  /\ state.highlightedIndex < Len(state.filteredItems)

\* C25: Tab on an open list with a highlighted candidate selects exactly
\* that candidate, as select does; Tab on an open list with no highlighted
\* candidate, or with no candidates, closes the list and leaves value as it
\* is; Tab on a closed list changes no state field.
C25_Tab ==
  [][Tab =>
       IF ~state.open THEN state' = state
       ELSE IF HighlightedCandidate
       THEN /\ state'.value =
                 IF props.multiple
                 THEN Append(state.value, At(state.filteredItems, state.highlightedIndex))
                 ELSE <<At(state.filteredItems, state.highlightedIndex)>>
            /\ state' = applyDerived(props,
                           Downshift_selectItemAtIndex(props, Cur,
                             state.highlightedIndex, "clickItem").state)
       ELSE ~state'.open /\ state'.value = state.value]_vars

\* C26: every value an onOpenChange, onSearchQueryChange or onSelectedChange
\* listener was handed during an event is the value the state holds once the
\* event is processed.
C26_NotesMatchState ==
  \A k \in DOMAIN notes :
    notes[k].handler \in {"onOpenChange", "onSearchQueryChange", "onSelectedChange"}
      => \A f \in DOMAIN notes[k].data : state[f] = notes[k].data[f]

\* C27: when a closed dropdown with no candidates is opened, by arrow up,
\* arrow down or otherwise, highlightedIndex is empty afterwards.
C27_EmptyListNoHighlight ==
  [][\A type \in OpenTypes :
       (/\ Open(type) /\ ~state.open /\ state'.open
        /\ Len(state.filteredItems) = 0)
         => state'.highlightedIndex = NULL]_vars

ValueEvents ==
  {"select", "tab", "remove", "chipDelete", "chipBackspace", "inputBackspace", "clear"}

\* C29: value changes in a select, a remove or a clear only; an open, a
\* close, a highlight, a new search query, the arrow keys and the click that
\* move the active chip leave value as it is, and so do, from every state,
\* a type-ahead key, a focus or blur and the expiry of either timer.
C29_ValueFrame ==
  [][/\ state'.value # state.value => last' \in ValueEvents
     /\ props.search = "none"
          => \A key \in CharKeys :
               setHighlightedIndexOnCharKeyDown(props, Cur, <<key>>).state.value
                 = state.value
     /\ \A signal \in Signals : timerCallback(state, signal).value = state.value
     /\ handleTriggerButtonOrListFocus(state).value = state.value
     /\ \A toPartner \in BOOLEAN : handleBlur(state, toPartner).value = state.value]_vars

\* a click has made the first of two chips the active one
C29_Witness ==
  /\ last = "chipClick" /\ Len(state.value) = 2
  /\ state.activeSelectedIndex = 0

\* C30: startingString holds characters only while its timer is pending,
\* and a key that is not a character, here Tab on the list, leaves it empty.
C30_BufferClearedByOtherKey ==
  [][/\ state'.startingString # << >>
          => \E t \in dom'.timers : t.signal = "charKeys"
     /\ ListKeyDown("Tab") => state'.startingString = << >>]_vars

\* the timers of signal pending in d
TimersOf(d, signal) == {t \in d.timers : t.signal = signal}

\* the one timer a set call of signal leaves pending
Restarted(d, signal, handle) ==
  TimersOf(d, signal) = {[id |-> handle, signal |-> signal, delay |-> CleanupTime(signal)]}

\* C31: a character key restarts the type-ahead timer and leaves the timer of
\* the announcement as it is, a select or remove that announces restarts the
\* announcement timer and leaves the type-ahead timer as it is, and the
\* expiry of one timer leaves the other one as it is.
C31_IndependentSignals ==
  [][/\ (\E key \in CharKeys : ListKeyDown(key))
          => /\ TimersOf(dom', "a11y") = TimersOf(dom, "a11y")
             /\ dom'.a11yStatusTimeout = dom.a11yStatusTimeout
             /\ Restarted(dom', "charKeys", dom'.charKeysPressedTimeout)
     /\ (\/ \E i \in 0..2 : SelectItem(i)
         \/ \E item \in {Apple, Banana} : SelectedItemRemove(item)
         \/ ListKeyDown("Tab"))
          => /\ TimersOf(dom', "charKeys") = TimersOf(dom, "charKeys")
             /\ dom'.charKeysPressedTimeout = dom.charKeysPressedTimeout
             /\ (\E k \in DOMAIN notes' : notes'[k].handler = "onSelectedChange")
                  => Restarted(dom', "a11y", dom'.a11yStatusTimeout)
     /\ \A t \in dom.timers :
          TimerFires(t)
            => \A s \in Signals \ {t.signal} : TimersOf(dom', s) = TimersOf(dom, s)]_vars

\* a character key has restarted the type-ahead timer while the timer of an
\* announcement is half way
C31_Witness ==
  /\ last = "listA"
  /\ Restarted(dom, "charKeys", dom.charKeysPressedTimeout)
  /\ dom.clock["charKeys"].rearmed
  /\ \E t \in TimersOf(dom, "a11y") : t.delay = 250

\* what a select of candidate i and a remove of chip item leave in
\* a11ySelectionStatus
C32_Announced ==
  [][/\ \A i \in 0..1 :
          SelectItem(i)
            => state'.a11ySelectionStatus =
                 IF props.getA11ySelectionMessage.onAdd
                 THEN <<"+">> \o itemToString(At(state.filteredItems, i))
                 ELSE << >>
     /\ \A item \in {Apple, Banana} :
          SelectedItemRemove(item)
            => state'.a11ySelectionStatus =
                 IF props.getA11ySelectionMessage.onRemove
                 THEN <<"-">> \o itemToString(item)
                 ELSE << >>
     /\ ~props.getA11ySelectionMessage.onAdd => state'.a11ySelectionStatus = << >>]_vars

\* from some state on no set call has just been made and the instance stays
\* mounted
C32_Quiet == dom.mounted /\ dom.clock["a11y"].sinceSet # 0

\* C32: a select with the onAdd formatter and a remove with the onRemove
\* formatter leave the formatter's text for the item in a11ySelectionStatus,
\* without the formatters a11ySelectionStatus stays empty, and when from some
\* point on there is no further announcement and no unmount,
\* a11ySelectionStatus is empty in the end.
C32_Announcement ==
  /\ C32_Announced
  /\ <>[]C32_Quiet => <>[](state.a11ySelectionStatus = << >>)

\* the text announced for Banana has been emptied by the timer
C32_Witness ==
  /\ last = "a11yExpiry" /\ dom.mounted
  /\ state.a11ySelectionStatus = << >>
  /\ state.value = <<Banana>>
  /\ ~dom.clock["a11y"].rearmed /\ dom.clock["a11y"].expiries = 1

\* C33: a blur of the trigger button that finds the list open and the focus
\* in the list changes no state field and notifies nobody; a blur that finds
\* the focus elsewhere leaves the list closed.
C33_TriggerBlur ==
  [][TriggerButtonBlur
       => IF state.open /\ dom.focus = "list"
          THEN state' = state /\ notes' = << >>
          ELSE ~state'.open]_vars

\* the blur that follows an open has left the list open, the highlight
\* kept, and a blur with the focus outside can close it
C33_Witness ==
  /\ last = "triggerBlur" /\ state.open /\ dom.focus = "list"
  /\ state.highlightedIndex = 1 /\ notes = << >>
  /\ ENABLED (FocusElsewhere /\ state'.open)

Opposite(key) == IF key = "ArrowLeft" THEN "ArrowRight" ELSE "ArrowLeft"

Rtl(p) == [p EXCEPT !.rtl = TRUE]
Ltr(p) == [p EXCEPT !.rtl = FALSE]

\* C34: from every state, ArrowLeft or ArrowRight on the trigger button, in
\* the search input or on a chip does under the right-to-left layout what
\* the opposite key does under the left-to-right layout; under right-to-left
\* ArrowRight moves the active chip to the previous one and ArrowLeft to the
\* next one.
C34_RtlMirrors ==
  [][/\ \A key \in {"ArrowLeft", "ArrowRight"} :
          /\ handleTriggerButtonKeyDown(Rtl(props), Cur, key)
               = handleTriggerButtonKeyDown(Ltr(props), Cur, Opposite(key))
          /\ \A selectionStart \in 0..1 :
               handleInputKeyDown(Rtl(props), Cur, key, selectionStart)
                 = handleInputKeyDown(Ltr(props), Cur, Opposite(key), selectionStart)
          /\ \A item \in Range(state.value) :
               handleSelectedItemKeyDown(Rtl(props), Cur, item, key)
                 = handleSelectedItemKeyDown(Ltr(props), Cur, item, Opposite(key))
     /\ \A item \in Range(state.value) :
          (props.rtl /\ isNumber(state.activeSelectedIndex))
            => /\ (SelectedItemKeyDown(item, "ArrowRight") /\ state.activeSelectedIndex > 0)
                    => state'.activeSelectedIndex = state.activeSelectedIndex - 1
               /\ (/\ SelectedItemKeyDown(item, "ArrowLeft")
                   /\ state.activeSelectedIndex < Len(state.value) - 1)
                    => state'.activeSelectedIndex = state.activeSelectedIndex + 1]_vars

\* under right-to-left, ArrowRight on the trigger button has made the last
\* chip the active one
C34_Witness ==
  /\ props.rtl /\ last = "triggerArrowRight"
  /\ Len(state.value) = 2 /\ state.activeSelectedIndex = 1
  /\ ENABLED (\E item \in Range(state.value) : SelectedItemKeyDown(item, "ArrowRight")
                /\ state'.activeSelectedIndex = 0)

\* items, without the elements of value in multiple mode
CandidatesByValue ==
  IF props.multiple
  THEN SelectSeq(props.items, LAMBDA item : item \notin Range(state.value))
  ELSE props.items

\* C35: in every reachable state filteredItems is the filter of the current
\* items, value and searchQuery: with a search function what the function
\* returns for the candidates by value, with text search the candidates whose
\* string contains the query, without search the candidates by value, and
\* then filteredItemStrings has the length of filteredItems and holds at i
\* the lower-cased string of filteredItems[i].
C35_DerivedFresh ==
  /\ isFunction(props.search)
       => state.filteredItems = search_call(props, CandidatesByValue, state.searchQuery)
  /\ props.search = "text"
       => state.filteredItems =
            SelectSeq(CandidatesByValue,
                      LAMBDA item : Contains(toLowerCase(itemToString(item)),
                                             toLowerCase(state.searchQuery)))
  /\ props.search = "none"
       => /\ state.filteredItems = CandidatesByValue
          /\ Len(state.filteredItemStrings) = Len(state.filteredItems)
          /\ \A i \in 1..Len(state.filteredItems) :
               state.filteredItemStrings[i]
                 = toLowerCase(itemToString(state.filteredItems[i]))

\* the search function has kept Apple alone for "a", which Banana contains
\* as well
C35_Witness ==
  /\ props.search = "prefixFn" /\ props.items = <<Apple, Banana, Cherry>>
  /\ last = "setSearchQuery" /\ state.searchQuery = <<"a">>
  /\ state.filteredItems = <<Apple>>

\* C36: without search, the focus is on the list after a step that opens it
\* and on the trigger button after a select and after Escape; with search,
\* an open, a select and Escape leave the focus in the search input.
C36_FocusFollows ==
  [][/\ props.search = "none"
          => /\ \A type \in OpenTypes :
                  (Open(type) /\ ~state.open /\ state'.open) => dom'.focus = "list"
             /\ (\E i \in 0..1 : SelectItem(i)) => dom'.focus = "trigger"
             /\ ListKeyDown("Escape") => dom'.focus = "trigger"
     /\ (props.search # "none" /\ dom.focus = "input")
          => ((\/ \E type \in OpenTypes : Open(type)
               \/ \E i \in 0..1 : SelectItem(i)
               \/ InputEscape)
                => dom'.focus = "input")]_vars

\* Escape on the open list has closed it and put the focus on the trigger
C36_Witness ==
  /\ last = "listEscape" /\ props.search = "none"
  /\ ~state.open /\ dom.focus = "trigger"
  /\ \E k \in DOMAIN notes : ~notes[k].data.open

\* C37: under the left-to-right layout, with chip i the active one,
\* ArrowLeft on a chip makes i - 1 the active index when i > 0 and changes
\* nothing when i = 0; ArrowRight makes i + 1 the active index when chip i is
\* not the last one, and from the last chip empties the active index and
\* puts the focus into the search input, or on the trigger button without
\* search; with no active chip neither key changes anything.
C37_ChipNavigation ==
  [][\A item \in {Apple, Banana, Cherry} :
       LET i == state.activeSelectedIndex
           n == Len(state.value)
           step(to, focus) ==
             /\ state' = [state EXCEPT !.activeSelectedIndex = to]
             /\ dom' = [dom EXCEPT !.focus = focus]
       IN  /\ SelectedItemKeyDown(item, "ArrowLeft")
                => /\ (isNumber(i) /\ 0 < i /\ i < n) => step(i - 1, dom.focus)
                   /\ (i = 0 \/ isNil(i)) => step(i, dom.focus)
           /\ SelectedItemKeyDown(item, "ArrowRight")
                => /\ (isNumber(i) /\ 0 <= i /\ i < n - 1) => step(i + 1, dom.focus)
                   /\ (isNumber(i) /\ i = n - 1)
                        => step(NULL, IF props.search # "none" THEN "input" ELSE "trigger")
                   /\ isNil(i) => step(i, dom.focus)]_vars

\* ArrowRight on the last of two chips has emptied the active index and put
\* the focus into the search input
C37_Witness ==
  /\ last = "chipArrowRight" /\ Len(state.value) = 2
  /\ state.activeSelectedIndex = NULL
  /\ props.search = "text" /\ dom.focus = "input"
  /\ ENABLED (\E item \in Range(state.value) : SelectedItemClick(item))

\* C38: while the parent controls value and hands in no new one, a remove of
\* a given chip and a remove of the last chip leave state.value, the array
\* of the parent, as it was, and onSelectedChange carries the array without
\* the chip.
C38_ControlledValueKept ==
  [][/\ \A item \in {Apple, Banana} :
          (\/ SelectedItemRemove(item)
           \/ \E key \in {"Delete", "Backspace"} : SelectedItemKeyDown(item, key))
            => /\ state'.value = state.value
               /\ \E k \in DOMAIN notes' :
                    /\ notes'[k].handler = "onSelectedChange"
                    /\ notes'[k].data.value =
                         SelectSeq(state.value, LAMBDA x : x # item)
     /\ \A selectionStart \in 0..1 :
          (/\ InputKeyDown("Backspace", selectionStart)
           /\ state.value # << >>
           /\ (state.searchQuery = << >> \/ selectionStart = 0))
            => /\ state'.value = state.value
               /\ \E k \in DOMAIN notes' :
                    /\ notes'[k].handler = "onSelectedChange"
                    /\ notes'[k].data.value = popped(state.value)]_vars

\* C39: whenever a step changes open, the listeners get exactly one
\* onOpenChange during it, and it carries the new value of open.
C39_OpenChangeReported ==
  [][state'.open # state.open
       => /\ Cardinality({k \in DOMAIN notes' : notes'[k].handler = "onOpenChange"}) = 1
          /\ \A k \in DOMAIN notes' :
               notes'[k].handler = "onOpenChange" => notes'[k].data.open = state'.open]_vars

\* C40: a callback the component has scheduled, the expiry of either timer
\* or the scroll of the chip strip after a select, runs on a mounted
\* instance only.
C40_NoCallbackAfterUnmount ==
  [][/\ ScrollToEnd => dom.mounted
     /\ \A t \in dom.timers : TimerFires(t) => dom.mounted]_vars

====
